---------------------------- MODULE Spec2Model ----------------------------
(***************************************************************************)
(* quatplot (src/main.go): a serial-line reader that parses quaternion     *)
(* records, keeps the latest one, and fans each record out to the          *)
(* connected WebSocket clients.                                            *)
(*                                                                         *)
(* Text is a sequence of one-character strings.  A float64 is the tuple    *)
(* <<kind, neg, m, e>>: kind "num" is the decimal (-1)^neg * m * 10^-e,    *)
(* normalised so that no two tuples denote the same number apart from the  *)
(* two zeros; kind "nan" is the IEEE not-a-number and kind "inf" an        *)
(* infinity.                                                               *)
(***************************************************************************)
EXTENDS Integers, Sequences, FiniteSets, TLC

(***************************************************************************)
(* Bounds of the model.                                                    *)
(***************************************************************************)
MaxLines == 1         \* lines read when every connection takes part
MaxStreamLines == 2   \* lines read when one connection takes part
MaxOpenFails == 1     \* failed attempts to open before an open succeeds
NumConns == 2

\* The lines read are the only thing the bounds cap: the guard of the two
\* actions that read a line takes the cap as a parameter.

Conns == 1..NumConns

(***************************************************************************)
(* Text helpers: strings.TrimSpace and strings.Split, as line 105 uses     *)
(* them.                                                                   *)
(***************************************************************************)
IsSpace(ch) == ch \in {" ", "\t", "\r", "\n"}

RECURSIVE TrimLeft(_)
TrimLeft(s) ==
    IF s # << >> /\ IsSpace(Head(s)) THEN TrimLeft(Tail(s)) ELSE s

RECURSIVE TrimRight(_)
TrimRight(s) ==
    IF s # << >> /\ IsSpace(s[Len(s)])
    THEN TrimRight(SubSeq(s, 1, Len(s) - 1))
    ELSE s

TrimSpace(s) == TrimRight(TrimLeft(s))

\* strings.Split(s, ","): the fields between the commas; one (empty) field
\* for the empty text.
RECURSIVE SplitFrom(_, _, _)
SplitFrom(s, cur, acc) ==
    IF s = << >> THEN Append(acc, cur)
    ELSE IF Head(s) = ","
         THEN SplitFrom(Tail(s), << >>, Append(acc, cur))
         ELSE SplitFrom(Tail(s), Append(cur, Head(s)), acc)

Split(s) == SplitFrom(s, << >>, << >>)

(***************************************************************************)
(* strconv.ParseFloat(field, 64) on the decimal grammar                    *)
(*   [+-] digits [ . digits ] [ (e|E) [+-] digits ]                        *)
(* (at least one digit before the exponent) and on the special texts       *)
(* "nan", [+-]"inf" and [+-]"infinity" in any letter case.                 *)
(***************************************************************************)
Digits == {"0", "1", "2", "3", "4", "5", "6", "7", "8", "9"}

DigitVal(ch) ==
    CASE ch = "0" -> 0 [] ch = "1" -> 1 [] ch = "2" -> 2 [] ch = "3" -> 3
      [] ch = "4" -> 4 [] ch = "5" -> 5 [] ch = "6" -> 6 [] ch = "7" -> 7
      [] ch = "8" -> 8 [] ch = "9" -> 9

DigitChar(d) ==
    CASE d = 0 -> "0" [] d = 1 -> "1" [] d = 2 -> "2" [] d = 3 -> "3"
      [] d = 4 -> "4" [] d = 5 -> "5" [] d = 6 -> "6" [] d = 7 -> "7"
      [] d = 8 -> "8" [] d = 9 -> "9"

Lower(ch) ==
    CASE ch = "N" -> "n" [] ch = "A" -> "a" [] ch = "I" -> "i" [] ch = "F" -> "f"
      [] ch = "T" -> "t" [] ch = "Y" -> "y" [] ch = "E" -> "e" [] OTHER -> ch

LowerText(s) == [n \in 1..Len(s) |-> Lower(s[n])]

NaN == <<"nan", FALSE, 0, 0>>

Inf(neg) == <<"inf", neg, 0, 0>>

RECURSIVE Pow10(_)
Pow10(n) == IF n = 0 THEN 1 ELSE 10 * Pow10(n - 1)

\* The decimal m * 10^-e with the trailing zeros of the fraction dropped.
RECURSIVE Normalise(_, _)
Normalise(m, e) ==
    IF e > 0 /\ m % 10 = 0 THEN Normalise(m \div 10, e - 1) ELSE <<m, e>>

Num(neg, m, e) ==
    LET n == Normalise(m, e) IN <<"num", neg, n[1], n[2]>>

RECURSIVE DigitsVal(_, _)
DigitsVal(s, acc) ==
    IF s = << >> THEN acc ELSE DigitsVal(Tail(s), 10 * acc + DigitVal(Head(s)))

AllDigits(s) == \A n \in 1..Len(s) : s[n] \in Digits

DotAt(s) ==
    IF \E n \in 1..Len(s) : s[n] = "."
    THEN CHOOSE n \in 1..Len(s) : s[n] = "." /\ \A p \in 1..(n - 1) : s[p] # "."
    ELSE 0

ExpAt(s) ==
    IF \E n \in 1..Len(s) : Lower(s[n]) = "e"
    THEN CHOOSE n \in 1..Len(s) :
            Lower(s[n]) = "e" /\ \A p \in 1..(n - 1) : Lower(s[p]) # "e"
    ELSE 0

\* The decimal m * 10^-k, for k of either sign.
Scaled(neg, m, k) == IF k >= 0 THEN Num(neg, m, k) ELSE Num(neg, m * Pow10(0 - k), 0)

\* The unsigned part of a decimal: digits with at most one point and one
\* digit at least, then an optional exponent of one digit at least.
ParseUnsigned(neg, s) ==
    LET x    == ExpAt(s)
        mant == IF x = 0 THEN s ELSE SubSeq(s, 1, x - 1)
        et   == IF x = 0 THEN << >> ELSE SubSeq(s, x + 1, Len(s))
        eneg == et # << >> /\ Head(et) = "-"
        ed   == IF et # << >> /\ Head(et) \in {"+", "-"} THEN Tail(et) ELSE et
        d    == DotAt(mant)
        ip   == IF d = 0 THEN mant ELSE SubSeq(mant, 1, d - 1)
        fp   == IF d = 0 THEN << >> ELSE SubSeq(mant, d + 1, Len(mant))
    IN  IF /\ AllDigits(ip) /\ AllDigits(fp) /\ Len(ip) + Len(fp) > 0
           /\ x # 0 => (ed # << >> /\ AllDigits(ed))
        THEN [ok  |-> TRUE,
              val |-> Scaled(neg, DigitsVal(ip \o fp, 0),
                             IF eneg THEN Len(fp) + DigitsVal(ed, 0)
                                     ELSE Len(fp) - DigitsVal(ed, 0))]
        ELSE [ok |-> FALSE, val |-> Num(FALSE, 0, 0)]

ParseFloat(s) ==
    IF LowerText(s) = <<"n", "a", "n">>
    THEN [ok |-> TRUE, val |-> NaN]
    ELSE LET neg  == s # << >> /\ Head(s) = "-"
             rest == IF s # << >> /\ Head(s) \in {"+", "-"} THEN Tail(s) ELSE s
         IN  IF LowerText(rest) \in {<<"i", "n", "f">>,
                                     <<"i", "n", "f", "i", "n", "i", "t", "y">>}
             THEN [ok |-> TRUE, val |-> Inf(neg)]
             ELSE ParseUnsigned(neg, rest)

(***************************************************************************)
(* The Quaternion struct and parseQuaternion.                              *)
(***************************************************************************)
\* 0, the zero value of a float64.
Zero == Num(FALSE, 0, 0)

\* Faulty variant: the composite literal of line 130 with two fields swapped.
QuaternionSwapped(i, j, k, real) == [I |-> i, J |-> k, K |-> j, Real |-> real]

\* Quaternion{I: i, J: j, K: k, Real: real} (lines 19-24, 130).
Quaternion(i, j, k, real) == [I |-> i, J |-> j, K |-> k, Real |-> real]

\* Quaternion{}: Go's zero value of the struct.
ZeroQuat == Quaternion(Zero, Zero, Zero, Zero)

Roles == <<"i", "j", "k", "real">>

ParseErr(msg, n, txt) ==
    [ok |-> FALSE, quat |-> ZeroQuat, err |-> msg, count |-> n, text |-> txt]

\* Faulty variant: each field is trimmed before it is parsed.
FieldTextTrimmed(parts, p) == TrimSpace(parts[p])

\* The text lines 110, 115, 120 and 125 pass to strconv.ParseFloat: the field
\* as the split left it.
FieldText(parts, p) == parts[p]

\* The lowest position whose field is not a number, 0 when all four are.
FirstBad(parts) ==
    IF \E p \in 1..4 : ~ParseFloat(FieldText(parts, p)).ok
    THEN CHOOSE p \in 1..4 :
            /\ ~ParseFloat(FieldText(parts, p)).ok
            /\ \A q \in 1..(p - 1) : ParseFloat(FieldText(parts, q)).ok
    ELSE 0

\* Faulty variant: only too few fields are refused.
WrongCountFewer(parts) == Len(parts) < 4

\* len(parts) != 4 (line 106).
WrongCount(parts) == Len(parts) # 4

\* The result for the fields the line splits into (lines 106-130).
ParseFields(parts) ==
    IF WrongCount(parts)
    THEN ParseErr("expected 4 values", Len(parts), << >>)
    ELSE LET bad == FirstBad(parts) IN
         IF bad # 0
         THEN ParseErr(Roles[bad], 4, FieldText(parts, bad))
         ELSE [ok    |-> TRUE,
               quat  |-> Quaternion(ParseFloat(FieldText(parts, 1)).val, ParseFloat(FieldText(parts, 2)).val,
                                    ParseFloat(FieldText(parts, 3)).val, ParseFloat(FieldText(parts, 4)).val),
               err   |-> "", count |-> 4, text |-> << >>]

\* parts := strings.Split(strings.TrimSpace(line), ","), computed once, and
\* the result for it.
parseQuaternion(line) ==
    CHOOSE r \in {ParseFields(parts) : parts \in {Split(TrimSpace(line))}} : TRUE

(***************************************************************************)
(* json.Marshal of a Quaternion: the four tagged fields in declaration     *)
(* order, each number in its shortest decimal form; a NaN or infinite      *)
(* field makes Marshal fail and return no data.                            *)
(***************************************************************************)
RECURSIVE NatText(_)
NatText(n) ==
    IF n < 10 THEN <<DigitChar(n)>> ELSE Append(NatText(n \div 10), DigitChar(n % 10))

RECURSIVE FracText(_, _)
FracText(n, width) ==
    IF width = 0 THEN << >>
    ELSE Append(FracText(n \div 10, width - 1), DigitChar(n % 10))

FormatFloat(v) ==
    LET p == Pow10(v[4])
    IN  (IF v[2] THEN <<"-">> ELSE << >>)
        \o NatText(v[3] \div p)
        \o (IF v[4] > 0 THEN <<".">> \o FracText(v[3] % p, v[4]) ELSE << >>)

Marshal(q) ==
    IF \E v \in {q.I, q.J, q.K, q.Real} : v[1] # "num"
    THEN [ok |-> FALSE, data |-> << >>]
    ELSE [ok |-> TRUE,
          data |-> << <<"i", FormatFloat(q.I)>>, <<"j", FormatFloat(q.J)>>,
                      <<"k", FormatFloat(q.K)>>, <<"real", FormatFloat(q.Real)>> >>]

(***************************************************************************)
(* The lines the serial device may send.                                   *)
(***************************************************************************)
LineA   == <<"0",".","0",",","0",".","0",",","0",".","0",",","1",".","0">>
LineB   == <<"0",".","1",",","0",".","2",",","0",".","3",",","0",".","9">>
LineNaN == <<"N","a","N",",","0",",","0",",","1">>
LineBad == <<"a","b","c",",","0",",","0",",","1">>

Lines == {LineA, LineB, LineNaN, LineBad}

(***************************************************************************)
(* State.  Unit 0 is the goroutine running listenSerialPort; unit c in     *)
(* Conns is the goroutine running handleWebSocket for connection c.  A     *)
(* local variable holds its zero value while it is out of scope.           *)
(***************************************************************************)
VARIABLES
    currentQuat,    \* the latest record (line 27)
    quatMutex,      \* sync.RWMutex: [writer, readers] (line 28)
    clients,        \* the set of registered connections (line 29)
    clientsMutex,   \* sync.Mutex: the set of units holding it (line 30)
    ipc,            \* where listenSerialPort is
    openPorts,      \* the number of serial ports open and not closed
    line,           \* listenSerialPort: the line scanner.Text() returned (line 78)
    err,            \* listenSerialPort: the error parseQuaternion returned (line 79)
    quat,           \* listenSerialPort: the record parsed from the line
    data,           \* broadcastQuaternion: the marshalled record
    todo,           \* broadcastQuaternion: clients the range has yet to visit
    cur,            \* broadcastQuaternion: the client being written to
    hpc,            \* where each handleWebSocket is
    conn,           \* each connection: "none", "open", "broken", "closed"
    snap,           \* each handler's copy of currentQuat (line 170)
    writers,        \* per connection, the units inside WriteMessage on it
    raced,          \* per connection, whether the writes in progress overlapped
    wbuf,           \* per connection, the bytes last copied to its write buffer
    crashed,        \* the process died of an unrecovered panic
    received,       \* history: per connection, the messages its peer received
    published,      \* history: the records broadcastQuaternion was called with
    parsed,         \* history: the records parsed successfully
    regVals,        \* history: per connection, currentQuat's values since it registered
    startClients,   \* history: clients when the running broadcast took the lock
    attempted,      \* history: clients the running broadcast has written to
    failed,         \* history: clients whose write failed in the running broadcast
    evicted,        \* history: clients whose write ever failed in a broadcast
    linesRead,      \* number of lines read so far
    openFails,      \* number of failed attempts to open since the port was last open
    sessions,       \* history: times the port was opened, counted up to 2
    sent            \* history: the fields and padding a line under parse was made of

ingestVars == <<ipc, openPorts, line, err, quat, data, todo, cur>>
sharedVars == <<currentQuat, quatMutex, clients, clientsMutex>>
connVars   == <<hpc, conn, snap, writers, raced, wbuf>>
bcastHist  == <<startClients, attempted, failed, evicted>>
histVars   == <<received, published, parsed, regVals, bcastHist, linesRead, openFails,
                sessions, sent>>
vars       == <<ingestVars, sharedVars, connVars, crashed, histVars>>

Ingest == 0

\* A nil error.
Nil == [msg |-> "", count |-> 0, text |-> << >>]

\* The error of a result of parseQuaternion: what the message is about, the
\* field count it reports and the field text it quotes (lines 107, 112-127).
ErrOf(r) == IF r.ok THEN Nil ELSE [msg |-> r.err, count |-> r.count, text |-> r.text]

\* What a peer reads when two WriteMessage calls on its connection overlapped
\* and the shared write buffer was overwritten.
Garbled == << <<"garbled", << >> >> >>

\* The state at the start, apart from where listenSerialPort is and the line
\* it holds.
InitOther ==
    /\ currentQuat = ZeroQuat
    /\ quatMutex = [writer |-> FALSE, readers |-> {}]
    /\ clients = {}
    /\ clientsMutex = {}
    /\ openPorts = 0
    /\ err = Nil
    /\ quat = ZeroQuat
    /\ data = << >>
    /\ todo = {}
    /\ cur = 0
    /\ hpc = [c \in Conns |-> "idle"]
    /\ conn = [c \in Conns |-> "none"]
    /\ snap = [c \in Conns |-> ZeroQuat]
    /\ writers = [c \in Conns |-> {}]
    /\ raced = [c \in Conns |-> FALSE]
    /\ wbuf = [c \in Conns |-> << >>]
    /\ crashed = FALSE
    /\ received = [c \in Conns |-> << >>]
    /\ published = << >>
    /\ parsed = << >>
    /\ regVals = [c \in Conns |-> {}]
    /\ startClients = {}
    /\ attempted = {}
    /\ failed = {}
    /\ evicted = {}
    /\ linesRead = 0
    /\ openFails = 0
    /\ sessions = 0

Init ==
    /\ InitOther
    /\ ipc = "open"
    /\ line = << >>
    /\ sent = << >>

(***************************************************************************)
(* WriteMessage on a connection (lines 145 and 174).  The call copies the  *)
(* message to the connection's one write buffer and then flushes the       *)
(* buffer as a frame of the message's length.  gorilla/websocket allows    *)
(* one writer at a time: when two calls overlap, a call may deliver its    *)
(* own bytes, deliver what the other call copied over them, or panic       *)
(* ("concurrent write to websocket connection").                           *)
(***************************************************************************)
RECURSIVE ByteLen(_)
ByteLen(msg) ==
    IF msg = << >> THEN 0
    ELSE Len(Head(msg)[1]) + Len(Head(msg)[2]) + 4 + ByteLen(Tail(msg))

\* Unit u enters WriteMessage on c and copies the bytes b (none, when b is
\* empty) to the write buffer.
BeginWrite(u, c, b) ==
    /\ writers' = [writers EXCEPT ![c] = @ \cup {u}]
    /\ raced' = [raced EXCEPT ![c] = @ \/ writers[c] # {}]
    /\ wbuf' = [wbuf EXCEPT ![c] = IF b = << >> THEN @ ELSE b]

\* Unit u returns from WriteMessage on c.
EndWrite(u, c) ==
    /\ writers' = [writers EXCEPT ![c] = @ \ {u}]
    /\ raced' = [raced EXCEPT ![c] = @ /\ writers[c] # {u}]
    /\ wbuf' = [wbuf EXCEPT ![c] = IF writers[c] = {u} THEN << >> ELSE @]

\* A frame of the length of b flushed from a buffer that holds other bytes: the
\* other message when it is as long, a malformed text otherwise.
Overwritten(b, buf) == IF ByteLen(buf) = ByteLen(b) THEN buf ELSE Garbled

\* The payloads a write of bytes b on connection c can put on the wire: its
\* own bytes, or, after an overlapping call copied other bytes to the buffer
\* before the flush, what the buffer then holds.
Payloads(c, b) ==
    IF raced[c] /\ wbuf[c] # b THEN {b, Overwritten(b, wbuf[c])} ELSE {b}

\* The peer of c receives msg: from the handler's snapshot write, or from the
\* broadcast of the seq-th published record.
Deliver(c, src, seq, msg) ==
    received' = [received EXCEPT ![c] = Append(@, [src |-> src, seq |-> seq, msg |-> msg])]

(***************************************************************************)
(* The locks.  clientsMutex is the set of units holding it; quatMutex      *)
(* records whether the writer holds it and which readers do.  A Lock or    *)
(* RLock call returns when the guard below holds, and the unit is a holder *)
(* from then to its Unlock.                                                *)
(***************************************************************************)
\* Faulty variant: Lock returns while another unit holds the mutex.
MutexFreeAlways(m) == TRUE

\* clientsMutex.Lock() can return (lines 135, 162, 178).
MutexFree(m) == m = {}

\* quatMutex.Lock() can return (line 86).
LockFree(m) == ~m.writer /\ m.readers = {}

\* Faulty variant: RLock returns while the writer holds the mutex.
RLockFreeAlways(m) == TRUE

\* quatMutex.RLock() can return (line 169).
RLockFree(m) == ~m.writer

\* Faulty variant: the Unlock of line 88 is missing.
WUnlockMissing(m) == m

\* quatMutex.Unlock() (line 88).
WUnlock(m) == [m EXCEPT !.writer = FALSE]

\* A Quaternion is four words, and an assignment of one copies it word by
\* word: first I and J, then K and Real (lines 87, 170).
CopiedHalf(dst, src) == [dst EXCEPT !.I = src.I, !.J = src.J]

CopiedRest(dst, src) == [dst EXCEPT !.K = src.K, !.Real = src.Real]

(***************************************************************************)
(* listenSerialPort (lines 61-101), with broadcastQuaternion (134-152)     *)
(* inlined at its call.                                                    *)
(***************************************************************************)
\* serial.Open fails: log and retry (lines 67-72).
IngestOpenFail ==
    /\ ~crashed /\ ipc = "open" /\ openFails < MaxOpenFails
    /\ openFails' = openFails + 1
    /\ UNCHANGED <<ingestVars, sharedVars, connVars, crashed>>
    /\ UNCHANGED <<received, published, parsed, regVals, bcastHist, linesRead, sessions, sent>>

\* serial.Open succeeds (lines 67, 74-75).
IngestOpenOk ==
    /\ ~crashed /\ ipc = "open"
    /\ openPorts' = openPorts + 1
    /\ ipc' = "scan"
    /\ openFails' = 0
    /\ sessions' = IF sessions < 2 THEN sessions + 1 ELSE sessions
    /\ UNCHANGED <<line, err, quat, data, todo, cur, sharedVars, connVars, crashed>>
    /\ UNCHANGED <<received, published, parsed, regVals, bcastHist, linesRead, sent>>

\* Faulty variant: the continue of line 82 is missing, and the loop goes on to
\* store and broadcast the zero record parseQuaternion returned.
AfterParseErrorFallsThrough == "qlock"

\* Where the loop goes after a line that failed to parse (lines 80-83: the
\* continue takes it back to scanner.Scan).
AfterParseError == "scan"

\* scanner.Scan returns a line that parseQuaternion rejects: the error is
\* logged with the line, and the continue ends the scope of both (lines 77-83).
IngestLineBad(l, max) ==
    /\ ~crashed /\ ipc = "scan" /\ linesRead < max
    /\ linesRead' = linesRead + 1
    /\ ~parseQuaternion(l).ok
    /\ quat' = parseQuaternion(l).quat
    /\ line' = << >>
    /\ err' = Nil
    /\ ipc' = AfterParseError
    /\ UNCHANGED <<openPorts, data, todo, cur, sharedVars, connVars, crashed>>
    /\ UNCHANGED <<received, published, parsed, regVals, bcastHist, openFails, sessions, sent>>

\* scanner.Scan returns a line that parseQuaternion accepts (lines 77-79).
IngestLineOk(l, max) ==
    /\ ~crashed /\ ipc = "scan" /\ linesRead < max
    /\ linesRead' = linesRead + 1
    /\ parseQuaternion(l).ok
    /\ quat' = parseQuaternion(l).quat
    /\ parsed' = Append(parsed, quat')
    /\ line' = l
    /\ err' = ErrOf(parseQuaternion(l))
    /\ ipc' = "qlock"
    /\ UNCHANGED <<openPorts, data, todo, cur, sharedVars, connVars, crashed>>
    /\ UNCHANGED <<received, published, regVals, bcastHist, openFails, sessions, sent>>

\* scanner.Scan returns false: end of stream or read error (lines 77, 94-96).
IngestScanEnd ==
    /\ ~crashed /\ ipc = "scan"
    /\ ipc' = "close"
    /\ UNCHANGED <<openPorts, line, err, quat, data, todo, cur, sharedVars, connVars, crashed, histVars>>

\* Faulty variant: the loop ends once the port is closed.
AfterCloseReturns == "returned"

\* Where the loop goes once the port is closed (line 100: back to line 66).
AfterClose == "open"

\* Faulty variant: the port.Close() of line 98 is missing.
ClosedNot(n) == n

\* The ports left open once port.Close() returned (line 98).
Closed(n) == n - 1

\* port.Close() (lines 98-100).
IngestClose ==
    /\ ~crashed /\ ipc = "close"
    /\ openPorts' = Closed(openPorts)
    /\ ipc' = AfterClose
    /\ UNCHANGED <<line, err, quat, data, todo, cur, sharedVars, connVars, crashed, histVars>>

\* Faulty variant: the store of line 87 is missing.
StoredNothing(old, q) == old

\* Faulty variant: line 87 assigns one field, currentQuat.Real = quat.Real.
StoredFieldwise(old, q) == [old EXCEPT !.Real = q.Real]

\* The value line 87 stores.
Stored(old, q) == q

\* quatMutex.Lock(); currentQuat = quat begins (lines 86-87).
IngestStore ==
    /\ ~crashed /\ ipc = "qlock"
    /\ LockFree(quatMutex)
    /\ quatMutex' = [quatMutex EXCEPT !.writer = TRUE]
    /\ currentQuat' = CopiedHalf(currentQuat, Stored(currentQuat, quat))
    /\ ipc' = "qunlock"
    /\ UNCHANGED <<openPorts, line, err, quat, data, todo, cur, clients, clientsMutex, connVars, crashed>>
    /\ UNCHANGED histVars

\* currentQuat = quat completes; quatMutex.Unlock() (lines 87-88).
IngestQUnlock ==
    /\ ~crashed /\ ipc = "qunlock"
    /\ currentQuat' = CopiedRest(currentQuat, Stored(currentQuat, quat))
    /\ regVals' = [c \in Conns |-> IF c \in clients THEN regVals[c] \cup {currentQuat'}
                                   ELSE regVals[c]]
    /\ quatMutex' = WUnlock(quatMutex)
    /\ ipc' = "call"
    /\ UNCHANGED <<openPorts, line, err, quat, data, todo, cur, clients, clientsMutex>>
    /\ UNCHANGED <<connVars, crashed>>
    /\ UNCHANGED <<received, published, parsed, bcastHist, linesRead, openFails, sessions, sent>>

\* The record line 91 passes to broadcastQuaternion.
Argument(q) == q

\* broadcastQuaternion(quat) is called (line 91).
IngestCall ==
    /\ ~crashed /\ ipc = "call"
    /\ published' = Append(published, Argument(quat))
    /\ ipc' = "block"
    /\ UNCHANGED <<openPorts, line, err, quat, data, todo, cur, sharedVars, connVars, crashed>>
    /\ UNCHANGED <<received, parsed, regVals, bcastHist, linesRead, openFails, sessions, sent>>

\* Faulty variant: the test of line 139 is missing.
MarshalFailedIgnored(m) == FALSE

\* err != nil after json.Marshal (line 139).
MarshalFailed(m) == ~m.ok

\* The clients line 144 ranges over.
Range(set) == set

\* clientsMutex.Lock(); json.Marshal(quat); on an error, log and return; otherwise
\* start ranging over clients (lines 135-144).
IngestBegin ==
    /\ ~crashed /\ ipc = "block"
    /\ MutexFree(clientsMutex)
    /\ clientsMutex' = clientsMutex \cup {Ingest}
    /\ IF MarshalFailed(Marshal(Argument(quat)))
       THEN /\ ipc' = "bunlock"
            /\ UNCHANGED <<data, todo>>
       ELSE /\ data' = Marshal(Argument(quat)).data
            /\ todo' = Range(clients)
            /\ ipc' = "range"
    /\ startClients' = clients
    /\ attempted' = {}
    /\ failed' = {}
    /\ UNCHANGED <<openPorts, line, err, quat, cur, currentQuat, quatMutex, clients, connVars, crashed>>
    /\ UNCHANGED <<received, published, parsed, regVals, evicted, linesRead, openFails, sessions, sent>>

\* The bytes line 145 writes.
Message(d) == d

\* Faulty variant: the range does not move past the client it visited.
RestSame(set, c) == set

\* What the range of line 144 has left to visit after it visited c.
Rest(set, c) == set \ {c}

\* The range picks the next client and WriteMessage on it begins (lines 144-145).
IngestRangeNext(c) ==
    /\ ~crashed /\ ipc = "range"
    /\ c \in todo
    /\ cur' = c
    /\ todo' = Rest(todo, c)
    /\ attempted' = attempted \cup {c}
    /\ BeginWrite(Ingest, c, Message(data))
    /\ ipc' = "write"
    /\ UNCHANGED <<openPorts, line, err, quat, data, sharedVars, hpc, conn, snap, crashed>>
    /\ UNCHANGED <<received, published, parsed, regVals, startClients, failed, evicted,
                   linesRead, openFails, sessions, sent>>

\* WriteMessage returns nil: the peer receives the message (lines 145-146).
IngestWriteOk ==
    /\ ~crashed /\ ipc = "write"
    /\ conn[cur] = "open"
    /\ \E msg \in Payloads(cur, Message(data)) :
            Deliver(cur, "publish", Len(published), msg)
    /\ EndWrite(Ingest, cur)
    /\ ipc' = "range"
    /\ UNCHANGED <<openPorts, line, err, quat, data, todo, cur, sharedVars, hpc, conn, snap, crashed>>
    /\ UNCHANGED <<published, parsed, regVals, bcastHist, linesRead, openFails, sessions, sent>>

\* Faulty variant: the delete of line 149 is missing.
EvictNothing(set, c) == set

\* Faulty variant: a failed write empties the map.
EvictAll(set, c) == {}

\* delete(clients, client) (line 149).
Evict(set, c) == set \ {c}

\* WriteMessage returns an error: close and delete the client (lines 146-150).
IngestWriteFail ==
    /\ ~crashed /\ ipc = "write"
    /\ conn[cur] # "open"
    /\ conn' = [conn EXCEPT ![cur] = "closed"]
    /\ clients' = Evict(clients, cur)
    /\ failed' = failed \cup {cur}
    /\ evicted' = evicted \cup {cur}
    /\ EndWrite(Ingest, cur)
    /\ ipc' = "range"
    /\ UNCHANGED <<openPorts, line, err, quat, data, todo, cur, currentQuat, quatMutex, clientsMutex>>
    /\ UNCHANGED <<hpc, snap, crashed>>
    /\ UNCHANGED <<received, published, parsed, regVals, startClients, attempted,
                   linesRead, openFails, sessions, sent>>

\* WriteMessage panics on an overlapping write; nothing in listenSerialPort's
\* goroutine recovers, so the process dies (line 145).
IngestWritePanic ==
    /\ ~crashed /\ ipc = "write"
    /\ raced[cur]
    /\ crashed' = TRUE
    /\ UNCHANGED <<ingestVars, sharedVars, connVars, histVars>>

\* The range is exhausted (line 151).
IngestRangeDone ==
    /\ ~crashed /\ ipc = "range"
    /\ todo = {}
    /\ ipc' = "bunlock"
    /\ UNCHANGED <<openPorts, line, err, quat, data, todo, cur, sharedVars, connVars, crashed, histVars>>

\* The deferred clientsMutex.Unlock() (line 136); the call returns to the scan
\* loop (line 92) and its locals go out of scope.
IngestBUnlock ==
    /\ ~crashed /\ ipc = "bunlock"
    /\ clientsMutex' = clientsMutex \ {Ingest}
    /\ ipc' = "scan"
    /\ line' = << >>
    /\ quat' = ZeroQuat
    /\ data' = << >>
    /\ cur' = 0
    /\ startClients' = {}
    /\ attempted' = {}
    /\ failed' = {}
    /\ UNCHANGED <<openPorts, err, todo, currentQuat, quatMutex, clients, connVars, crashed>>
    /\ UNCHANGED <<received, published, parsed, regVals, evicted, linesRead, openFails, sessions, sent>>

IngestStep(max) ==
    \/ IngestOpenFail
    \/ IngestOpenOk
    \/ IngestScanEnd
    \/ \E l \in Lines : IngestLineBad(l, max)
    \/ \E l \in Lines : IngestLineOk(l, max)
    \/ IngestClose
    \/ IngestStore
    \/ IngestQUnlock
    \/ IngestCall
    \/ IngestBegin
    \/ \E c \in Conns : IngestRangeNext(c)
    \/ IngestWriteOk
    \/ IngestWriteFail
    \/ IngestWritePanic
    \/ IngestRangeDone
    \/ IngestBUnlock

(***************************************************************************)
(* handleWebSocket (lines 155-192) for connection c.                       *)
(***************************************************************************)
\* upgrader.Upgrade fails: log and return (lines 156-160).
HandlerUpgradeFail(c) ==
    /\ ~crashed /\ hpc[c] = "idle"
    /\ hpc' = [hpc EXCEPT ![c] = "done"]
    /\ UNCHANGED <<ingestVars, sharedVars, conn, snap, writers, raced, wbuf, crashed, histVars>>

\* upgrader.Upgrade succeeds (line 156).
HandlerUpgrade(c) ==
    /\ ~crashed /\ hpc[c] = "idle"
    /\ conn' = [conn EXCEPT ![c] = "open"]
    /\ hpc' = [hpc EXCEPT ![c] = "lock"]
    /\ UNCHANGED <<ingestVars, sharedVars, snap, writers, raced, wbuf, crashed, histVars>>

\* clientsMutex.Lock(); clients[conn] = true (lines 162-163).
HandlerRegister(c) ==
    /\ ~crashed /\ hpc[c] = "lock"
    /\ MutexFree(clientsMutex)
    /\ clientsMutex' = clientsMutex \cup {c}
    /\ clients' = clients \cup {c}
    /\ regVals' = [regVals EXCEPT ![c] = {currentQuat}]
    /\ hpc' = [hpc EXCEPT ![c] = "unlock"]
    /\ UNCHANGED <<ingestVars, currentQuat, quatMutex, conn, snap, writers, raced, wbuf, crashed>>
    /\ UNCHANGED <<received, published, parsed, bcastHist, linesRead, openFails, sessions, sent>>

\* clientsMutex.Unlock() (line 164).
HandlerUnlock(c) ==
    /\ ~crashed /\ hpc[c] = "unlock"
    /\ clientsMutex' = clientsMutex \ {c}
    /\ hpc' = [hpc EXCEPT ![c] = "rlock"]
    /\ UNCHANGED <<ingestVars, currentQuat, quatMutex, clients>>
    /\ UNCHANGED <<conn, snap, writers, raced, wbuf, crashed, histVars>>

\* Faulty variant: line 170 is missing, and quat keeps its zero value.
SnapshotZero(q) == ZeroQuat

\* The value line 170 copies.
Snapshot(q) == q

\* quatMutex.RLock(); quat := currentQuat begins (lines 169-170).
HandlerSnapshot(c) ==
    /\ ~crashed /\ hpc[c] = "rlock"
    /\ RLockFree(quatMutex)
    /\ quatMutex' = [quatMutex EXCEPT !.readers = @ \cup {c}]
    /\ snap' = [snap EXCEPT ![c] = CopiedHalf(@, Snapshot(currentQuat))]
    /\ hpc' = [hpc EXCEPT ![c] = "runlock"]
    /\ UNCHANGED <<ingestVars, currentQuat, clients, clientsMutex>>
    /\ UNCHANGED <<conn, writers, raced, wbuf, crashed, histVars>>

\* quat := currentQuat completes; quatMutex.RUnlock() (lines 170-171).
HandlerRUnlock(c) ==
    /\ ~crashed /\ hpc[c] = "runlock"
    /\ snap' = [snap EXCEPT ![c] = CopiedRest(@, Snapshot(currentQuat))]
    /\ quatMutex' = [quatMutex EXCEPT !.readers = @ \ {c}]
    /\ hpc' = [hpc EXCEPT ![c] = "send"]
    /\ UNCHANGED <<ingestVars, currentQuat, clients, clientsMutex>>
    /\ UNCHANGED <<conn, writers, raced, wbuf, crashed, histVars>>

\* data, _ := json.Marshal(quat) (line 173): the error is dropped, and data is
\* empty when Marshal failed.
SnapshotData(q) == Marshal(q).data

\* conn.WriteMessage begins (line 174).
HandlerSend(c) ==
    /\ ~crashed /\ hpc[c] = "send"
    /\ BeginWrite(c, c, SnapshotData(snap[c]))
    /\ hpc' = [hpc EXCEPT ![c] = "write"]
    /\ UNCHANGED <<ingestVars, sharedVars, conn, snap, crashed, histVars>>

\* WriteMessage returns nil: the peer receives the snapshot (line 174); the
\* cleanup is deferred and the read loop starts (lines 177-186).
HandlerWriteOk(c) ==
    /\ ~crashed /\ hpc[c] = "write"
    /\ conn[c] = "open"
    /\ \E msg \in Payloads(c, SnapshotData(snap[c])) : Deliver(c, "snapshot", 0, msg)
    /\ EndWrite(c, c)
    /\ snap' = [snap EXCEPT ![c] = ZeroQuat]
    /\ hpc' = [hpc EXCEPT ![c] = "readloop"]
    /\ UNCHANGED <<ingestVars, sharedVars, conn, crashed>>
    /\ UNCHANGED <<published, parsed, regVals, bcastHist, linesRead, openFails, sessions, sent>>

\* WriteMessage returns an error, which line 174 ignores.
HandlerWriteFail(c) ==
    /\ ~crashed /\ hpc[c] = "write"
    /\ conn[c] # "open"
    /\ EndWrite(c, c)
    /\ snap' = [snap EXCEPT ![c] = ZeroQuat]
    /\ hpc' = [hpc EXCEPT ![c] = "readloop"]
    /\ UNCHANGED <<ingestVars, sharedVars, conn, crashed, histVars>>

\* WriteMessage panics on an overlapping write (line 174).  net/http recovers a
\* handler's panic; the cleanup of line 177 is not deferred yet, so the
\* handler ends with the connection open and registered.
HandlerWritePanic(c) ==
    /\ ~crashed /\ hpc[c] = "write"
    /\ raced[c]
    /\ EndWrite(c, c)
    /\ snap' = [snap EXCEPT ![c] = ZeroQuat]
    /\ hpc' = [hpc EXCEPT ![c] = "done"]
    /\ UNCHANGED <<ingestVars, sharedVars, conn, crashed, histVars>>

\* conn.ReadMessage returns an error: leave the loop (lines 186-191).
HandlerReadError(c) ==
    /\ ~crashed /\ hpc[c] = "readloop"
    /\ conn[c] # "open"
    /\ hpc' = [hpc EXCEPT ![c] = "dlock"]
    /\ UNCHANGED <<ingestVars, sharedVars, conn, snap, writers, raced, wbuf, crashed, histVars>>

\* Faulty variant: clients[conn] = false in place of the delete, which leaves
\* conn a key of the map.
UnregisterMarks(set, c) == set \cup {c}

\* Faulty variant: the delete of line 179 is missing.
UnregisterNothing(set, c) == set

\* delete(clients, conn) (line 179): a no-op when conn is not a key.
Unregister(set, c) == set \ {c}

\* Deferred: clientsMutex.Lock(); delete(clients, conn) (lines 178-179).
HandlerUnregister(c) ==
    /\ ~crashed /\ hpc[c] = "dlock"
    /\ MutexFree(clientsMutex)
    /\ clientsMutex' = clientsMutex \cup {c}
    /\ clients' = Unregister(clients, c)
    /\ hpc' = [hpc EXCEPT ![c] = "dunlock"]
    /\ UNCHANGED <<ingestVars, currentQuat, quatMutex>>
    /\ UNCHANGED <<conn, snap, writers, raced, wbuf, crashed, histVars>>

\* Deferred: clientsMutex.Unlock() (line 180).
HandlerDUnlock(c) ==
    /\ ~crashed /\ hpc[c] = "dunlock"
    /\ clientsMutex' = clientsMutex \ {c}
    /\ hpc' = [hpc EXCEPT ![c] = "close"]
    /\ UNCHANGED <<ingestVars, currentQuat, quatMutex, clients>>
    /\ UNCHANGED <<conn, snap, writers, raced, wbuf, crashed, histVars>>

\* Deferred: conn.Close() (lines 181-182); the handler returns.
HandlerClose(c) ==
    /\ ~crashed /\ hpc[c] = "close"
    /\ conn' = [conn EXCEPT ![c] = "closed"]
    /\ hpc' = [hpc EXCEPT ![c] = "done"]
    /\ UNCHANGED <<ingestVars, sharedVars, snap, writers, raced, wbuf, crashed, histVars>>

\* The peer goes away or the network fails: from now on a write to the
\* connection and a read from it return an error.
PeerGone(c) ==
    /\ ~crashed /\ conn[c] = "open"
    /\ conn' = [conn EXCEPT ![c] = "broken"]
    /\ UNCHANGED <<ingestVars, sharedVars, hpc, snap, writers, raced, wbuf, crashed, histVars>>

HandlerStep(c) ==
    \/ HandlerUpgradeFail(c)
    \/ HandlerUpgrade(c)
    \/ HandlerRegister(c)
    \/ HandlerUnlock(c)
    \/ HandlerSnapshot(c)
    \/ HandlerRUnlock(c)
    \/ HandlerSend(c)
    \/ HandlerWriteOk(c)
    \/ HandlerWriteFail(c)
    \/ HandlerWritePanic(c)
    \/ HandlerReadError(c)
    \/ HandlerUnregister(c)
    \/ HandlerDUnlock(c)
    \/ HandlerClose(c)

\* The whole system: the ingest loop and every connection.
Next ==
    \/ IngestStep(MaxLines)
    \/ \E c \in Conns : HandlerStep(c)
    \/ \E c \in Conns : PeerGone(c)

Spec == Init /\ [][Next]_vars

\* The ingest loop and one connection, over a longer stream of lines.
StreamNext ==
    \/ IngestStep(MaxStreamLines)
    \/ HandlerStep(1)
    \/ PeerGone(1)

StreamSpec == Init /\ [][StreamNext]_vars

\* The same, with the goroutine of listenSerialPort scheduled whenever it can
\* take a step.
StreamLive == StreamSpec /\ WF_vars(IngestStep(MaxStreamLines))

\* The same, with the goroutine of the connection's handleWebSocket scheduled
\* as well: the Go scheduler runs every goroutine that is not blocked.
StreamFair ==
    StreamSpec /\ WF_vars(IngestStep(MaxStreamLines)) /\ WF_vars(HandlerStep(1))


(***************************************************************************)
(* parseQuaternion and json.Marshal on their own.  One line is parsed as   *)
(* line 79 does and, when it parsed, its record is marshalled as line 138  *)
(* does.  The line is any text made of at most MaxFields of the field      *)
(* texts below, joined by commas, bare or padded with whitespace.          *)
(***************************************************************************)
MaxFields == 5

FieldTexts ==
    { <<"0">>, <<"1", ".", "0">>, <<"-", "0", ".", "2", "5">>, <<"5", "e", "-", "1">>,
      <<"a", "b", "c">>, << >>, <<" ", "0">>, <<"N", "a", "N">> }

FieldSeqs == UNION { [1..n -> FieldTexts] : n \in 1..MaxFields }

Pads == { [lead |-> << >>, trail |-> << >>], [lead |-> <<" ">>, trail |-> <<"\t">>] }

RECURSIVE Join(_)
Join(fs) ==
    IF Len(fs) = 1 THEN fs[1] ELSE fs[1] \o <<",">> \o Join(Tail(fs))

\* The line the device sends for the fields fs and the padding pad.
Compose(fs, pad) == pad.lead \o Join(fs) \o pad.trail

ParseInit ==
    /\ InitOther
    /\ ipc = "parse"
    /\ \E fs \in FieldSeqs, pad \in Pads :
            /\ sent = [fields |-> fs, pad |-> pad]
            /\ line = Compose(fs, pad)

\* quat, err := parseQuaternion(line) (line 79).
ParseLine ==
    /\ ipc = "parse"
    /\ quat' = parseQuaternion(line).quat
    /\ err' = ErrOf(parseQuaternion(line))
    /\ ipc' = IF parseQuaternion(line).ok THEN "parsed" ELSE "rejected"
    /\ UNCHANGED <<openPorts, line, data, todo, cur, sharedVars, connVars, crashed, histVars>>

\* data, err := json.Marshal(quat) on the record parsed (line 138).
MarshalRecord ==
    /\ ipc = "parsed"
    /\ data' = Marshal(Argument(quat)).data
    /\ ipc' = IF Marshal(Argument(quat)).ok THEN "marshalled" ELSE "unmarshalled"
    /\ UNCHANGED <<openPorts, line, err, quat, todo, cur, sharedVars, connVars, crashed, histVars>>

ParseNext ==
    \/ ParseLine
    \/ MarshalRecord

ParseSpec == ParseInit /\ [][ParseNext]_vars
(***************************************************************************)
(* Properties.                                                             *)
(***************************************************************************)
\* The record the spec calls the identity: i = j = k = 0, real = 1.
One == Num(FALSE, 1, 0)

IdentityQuat == Quaternion(Zero, Zero, Zero, One)

\* msg is the message that encodes record q.
Encodes(msg, q) == Marshal(q).ok /\ msg = Marshal(q).data

\* The peer of c received the snapshot its handler wrote.
GotSnapshot(c) == \E n \in 1..Len(received[c]) : received[c][n].src = "snapshot"

\* C1: a subscriber whose handler completed the snapshot write received, as the
\* first message on its connection, a message encoding a value currentQuat held
\* at or after its registration; the first message is never empty.
C1_FirstMessageIsSnapshot ==
    \A c \in Conns :
        GotSnapshot(c) =>
            \E v \in regVals[c] : Encodes(received[c][1].msg, v)

\* C3: a client whose write failed in a broadcast is out of clients when that
\* broadcast returns, stays out, and no later broadcast writes to it.
C3_EvictionOnFailure ==
    /\ ipc = "bunlock" => failed \cap clients = {}
    /\ evicted \cap clients = {}
    /\ ipc \in {"range", "write"} => todo \cap evicted = {}
    /\ ipc = "write" => cur \notin evicted

\* C3 witness: a second broadcast returns after the first one evicted a client.
C3_Witness ==
    /\ ipc = "bunlock"
    /\ Len(published) = 2
    /\ evicted # {}
    /\ failed = {}

\* C6: a subscriber served before any line was parsed receives the identity
\* record {i:0, j:0, k:0, real:1} as its first message.
C6_IdentityBeforeFirstRecord ==
    \A c \in Conns :
        (parsed = << >> /\ received[c] # << >>) =>
            received[c][1].msg = Marshal(IdentityQuat).data

\* C7: the step that reads a line which does not parse changes neither
\* currentQuat nor clients, publishes nothing, delivers nothing, and leaves the
\* loop at scanner.Scan with the port open.
C7_ParseErrorSkipsLine ==
    [][(ipc = "scan" /\ linesRead' = linesRead + 1 /\ parsed' = parsed) =>
          /\ currentQuat' = currentQuat
          /\ clients' = clients
          /\ published' = published
          /\ received' = received
          /\ ipc' = "scan"
          /\ openPorts = 1 /\ openPorts' = 1]_vars

\* C7 witness: a line failed to parse while a subscriber was registered, and
\* the loop is back at scanner.Scan.
C7_Witness ==
    /\ ipc = "scan"
    /\ linesRead > Len(parsed)
    /\ clients # {}

\* C8: the loop stores a parsed record before it calls broadcastQuaternion
\* with the same record: throughout the call currentQuat is its argument, and
\* between lines the records published are exactly the records parsed.
C8_StoreThenPublish ==
    /\ ipc \in {"block", "range", "write", "bunlock"} =>
          /\ published # << >>
          /\ published[Len(published)] = quat
          /\ currentQuat = quat
    /\ ipc \in {"open", "scan", "close"} => published = parsed
    /\ ipc \in {"qlock", "qunlock", "call"} =>
          /\ parsed = Append(published, quat)
          /\ ipc = "call" => currentQuat = quat

\* C8 witness: the second broadcast is called while a subscriber is registered.
C8_Witness ==
    /\ ipc = "block"
    /\ Len(published) = 2
    /\ clients # {}

\* C10: the handler's deferred delete of a connection that is not in clients
\* leaves clients as it was, and the handler goes on to unlock.
C10_UnregisterIdempotent ==
    [][\A c \in Conns :
          (hpc[c] = "dlock" /\ hpc'[c] # "dlock" /\ c \notin clients) =>
              /\ clients' = clients
              /\ hpc'[c] = "dunlock"]_vars

\* C10 witness: the deferred delete ran for a connection a broadcast had
\* already evicted.
C10_Witness ==
    \E c \in Conns : hpc[c] = "dunlock" /\ c \in evicted

IsPublish(e) == e.src = "publish"

\* The messages the broadcasts delivered to c, in the order c received them.
PublishedTo(c) ==
    LET es == SelectSeq(received[c], IsPublish) IN [n \in 1..Len(es) |-> es[n].msg]

\* The messages encoding the records published, in the order of the calls.
PublishedMsgs == [n \in 1..Len(published) |-> Marshal(published[n]).data]

RECURSIVE IsSubseq(_, _)
IsSubseq(s, t) ==
    IF s = << >> THEN TRUE
    ELSE IF t = << >> THEN FALSE
    ELSE IF Head(s) = Head(t) THEN IsSubseq(Tail(s), Tail(t))
    ELSE IsSubseq(s, Tail(t))

\* The peer of c received msg from the broadcast of the n-th published record.
GotPublish(c, n, msg) ==
    \E p \in 1..Len(received[c]) :
        received[c][p] = [src |-> "publish", seq |-> n, msg |-> msg]

\* C2: when a broadcast in which no write failed returns, every client that was
\* registered when it began has received the message encoding the record, and
\* clients is what it was.
C2_FanOutComplete ==
    (ipc = "bunlock" /\ failed = {}) =>
        /\ clients = startClients
        /\ \A c \in startClients :
              /\ Marshal(quat).ok
              /\ GotPublish(c, Len(published), Marshal(quat).data)

\* C4: the messages the broadcasts delivered to a subscriber are, in order, a
\* subsequence of the messages encoding the records published.
C4_PerSubscriberOrder ==
    \A c \in Conns : IsSubseq(PublishedTo(c), PublishedMsgs)

\* C5: whenever the line sequence of an open port has ended, the loop closes
\* the port and is back at serial.Open; and once the port is open again, a
\* line the device sends can be read and parsed as before.
C5_Reconnects ==
    /\ [](ipc = "close" => <>(ipc = "open" /\ openPorts = 0))
    /\ []((sessions = 2 /\ ipc = "scan" /\ ~crashed /\ linesRead < MaxStreamLines) =>
            ENABLED (\E l \in Lines : IngestLineOk(l, MaxStreamLines)))

\* C5 witness: after the port was opened a second time, a record read from it
\* is broadcast to a subscriber.
C5_Witness ==
    /\ sessions = 2
    /\ ipc = "bunlock"
    /\ attempted # {}
    /\ linesRead = 1

\* C9: when a broadcast in which some write failed returns, clients has lost
\* exactly the clients whose write failed, every client registered when it
\* began was written to, and each of them whose write succeeded has received
\* the message encoding the record.
C9_FailureScopedToSubscriber ==
    (ipc = "bunlock" /\ failed # {}) =>
        /\ clients = startClients \ failed
        /\ attempted = startClients
        /\ \A c \in startClients \ failed :
              GotPublish(c, Len(published), Marshal(quat).data)


\* C11: no error ends the ingest loop: in every state the goroutine of
\* listenSerialPort is alive and at a statement of its loop, opening the port
\* ("open") or reading from it (every other place).
C11_LoopNeverTerminates ==
    /\ ~crashed
    /\ ipc \in {"open", "scan", "close", "qlock", "qunlock", "call", "block", "range",
                "write", "bunlock"}

\* C12: after serial.Open failed, the loop's next step is not another attempt
\* to open: a delay comes between two attempts.
C12_DelayBetweenOpenAttempts ==
    [][openFails' > openFails => ipc' # "open"]_vars

\* The handler of c wrote the snapshot, and the write returned an error.
SnapshotWriteFailed(c) == hpc[c] \in {"readloop", "dlock"} /\ ~GotSnapshot(c)

\* C13: every connection in clients can be written to: none is closed, and
\* none is there after a write to it failed, the snapshot write included.
C13_SubscribersWritable ==
    \A c \in clients : conn[c] # "closed" /\ ~SnapshotWriteFailed(c)

\* The n-th record parsed is the only one with its value.
UniqueRecord(n) == \A m \in 1..Len(parsed) : m # n => parsed[m] # parsed[n]

\* Where, in what the peer of c received, the broadcast of the n-th record
\* delivered a message.
PublishesOf(c, n) ==
    {p \in 1..Len(received[c]) :
        received[c][p].src = "publish" /\ received[c][p].seq = n}

\* Where, in what the peer of c received, the messages for the n-th record
\* are: those its broadcast delivered, and a snapshot that carries the record.
MessagesFor(c, n) ==
    PublishesOf(c, n) \cup
    {p \in 1..Len(received[c]) :
        received[c][p].src = "snapshot" /\ Encodes(received[c][p].msg, parsed[n])}

\* C14 as stated: a subscriber receives at most one message for each record
\* the ingest loop produced.
C14_AtMostOncePerRecord ==
    \A c \in Conns : \A n \in 1..Len(parsed) :
        UniqueRecord(n) => Cardinality(MessagesFor(c, n)) <= 1

\* C14 amended: a broadcast delivers its record to a subscriber at most once:
\* it writes to each client once, a client whose write failed receives nothing
\* from it and is not written to again, and no subscriber receives two messages
\* from the broadcast of one record.
C14_PublishAtMostOnce ==
    /\ \A c \in Conns : \A n \in 1..Len(published) : Cardinality(PublishesOf(c, n)) <= 1
    /\ attempted \cap todo = {}
    /\ failed \subseteq attempted
    /\ \A c \in failed : c \notin clients /\ PublishesOf(c, Len(published)) = {}

\* C14 witness: a subscriber received a record twice, once as its snapshot and
\* once from the record's broadcast.
C14_Witness ==
    \E c \in Conns :
        /\ Len(parsed) = 1
        /\ Cardinality(PublishesOf(c, 1)) = 1
        /\ Cardinality(MessagesFor(c, 1)) = 2

\* The values a record variable may hold in full: the zero value it starts
\* with, and every record parsed so far.
WholeRecords == {ZeroQuat} \cup {parsed[n] : n \in 1..Len(parsed)}

\* C15: the copy of currentQuat a handler took under RLock is, in all four
\* fields, the initial value or one record that line 87 stored; it never has
\* fields of two records.
C15_NoTornRead ==
    \A c \in Conns : hpc[c] \in {"send", "write"} => snap[c] \in WholeRecords

\* C15 witness: a handler holds a whole copy of a record while the ingest
\* loop, holding the write lock, has stored half of the next record.
C15_Witness ==
    \E c \in Conns :
        /\ hpc[c] \in {"send", "write"}
        /\ snap[c] # ZeroQuat
        /\ ipc = "qunlock"
        /\ currentQuat \notin WholeRecords

\* The units of concurrency: the ingest loop and the handlers.
Units == {Ingest} \cup Conns

\* Unit u holds clientsMutex; unit u is inside Lock waiting for it.
HoldsClients(u) == u \in clientsMutex

WaitsClients(u) == IF u = Ingest THEN ipc = "block" ELSE hpc[u] \in {"lock", "dlock"}

\* Unit u holds quatMutex, as the writer or as a reader; unit u is inside Lock
\* or RLock waiting for it.
HoldsQuat(u) == IF u = Ingest THEN quatMutex.writer ELSE u \in quatMutex.readers

WaitsQuat(u) == IF u = Ingest THEN ipc = "qlock" ELSE hpc[u] = "rlock"

\* C16: no unit that holds one of the two locks holds or waits for the other.
C16_LocksNeverNested ==
    \A u \in Units :
        /\ HoldsClients(u) => ~HoldsQuat(u) /\ ~WaitsQuat(u)
        /\ HoldsQuat(u) => ~HoldsClients(u) /\ ~WaitsClients(u)

\* C16 witness: the two locks are held at once, by different units: a
\* handler is registering while the ingest loop stores a record.
C16_Witness ==
    \E c \in Conns : HoldsClients(c) /\ HoldsQuat(Ingest)

\* C17: at most one unit holds clientsMutex; the range over clients runs with
\* the ingest loop holding it; and every step that changes clients is taken by
\* the one unit that holds it: a handler at its Lock of line 162 or 178, or
\* the ingest loop inside its range.
C17_ClientsUnderLock ==
    /\ [](Cardinality(clientsMutex) <= 1)
    /\ [](ipc \in {"range", "write"} => HoldsClients(Ingest))
    /\ [][clients' # clients =>
            \E u \in Units :
                /\ clientsMutex' = {u}
                /\ IF u = Ingest
                   THEN ipc = "write" /\ clientsMutex = {Ingest}
                   ELSE hpc[u] \in {"lock", "dlock"} /\ hpc'[u] # hpc[u]]_vars

\* C17 witness: the ingest loop, holding clientsMutex, has evicted a client
\* whose handler is waiting for the mutex to delete it.
C17_Witness ==
    \E c \in Conns :
        /\ HoldsClients(Ingest)
        /\ c \in failed
        /\ c \notin clients
        /\ hpc[c] = "dlock"

\* The record that was parsed n-th, the initial value for n = 0.
LatestParsed(n) == IF n = 0 THEN ZeroQuat ELSE parsed[n]

\* C18: currentQuat is the most recent record parsed, or the initial value
\* when there is none, except while the loop is at the store of lines 86-88,
\* where it is still the one before; and only that store changes it: the step
\* that changes currentQuat is the ingest loop's, and it parses nothing,
\* publishes nothing and leaves clients and the handlers as they are.
C18_IngestSoleWriter ==
    /\ [](ipc \notin {"qlock", "qunlock"} => currentQuat = LatestParsed(Len(parsed)))
    /\ [](ipc = "qlock" => currentQuat = LatestParsed(Len(parsed) - 1))
    /\ [][currentQuat' # currentQuat =>
            /\ ipc \in {"qlock", "qunlock"} /\ ipc' # ipc
            /\ parsed' = parsed /\ published' = published
            /\ clients' = clients /\ hpc' = hpc]_vars

\* C18 witness: a second, different record has replaced the first while a
\* subscriber is registered.
C18_Witness ==
    /\ ipc = "call"
    /\ Len(parsed) = 2
    /\ parsed[1] # parsed[2]
    /\ currentQuat = parsed[2]
    /\ clients # {}

\* C19: the step that takes a connection out of clients is a broadcast's
\* write to that connection failing, or the deferred delete of the
\* connection's own handler after its read failed; no other step removes it.
C19_RemovalOnlyByFailureOrDisconnect ==
    [][\A c \in Conns :
          (c \in clients /\ c \notin clients') =>
              \/ /\ ipc = "write" /\ cur = c
                 /\ conn[c] # "open"
                 /\ c \in failed'
              \/ /\ hpc[c] = "dlock" /\ hpc'[c] = "dunlock"
                 /\ conn[c] # "open"]_vars

\* C19 witness: a broadcast evicted one subscriber and returns with the other
\* subscriber, whose peer is also gone, still registered.
C19_Witness ==
    \E c, d \in Conns :
        /\ c # d
        /\ ipc = "bunlock"
        /\ c \in failed
        /\ d \in clients /\ conn[d] = "broken"

\* The handler of c has run its deferred delete.
Unregistered(c) ==
    hpc[c] \in {"dunlock", "close"} \/ (hpc[c] = "done" /\ conn[c] = "closed")

\* C20: provided clientsMutex is released whenever it is taken, once a
\* handler's read has failed its connection is eventually out of clients and
\* closed; and from the deferred delete on the connection is not in clients
\* and no broadcast writes to it.
C20_DisconnectCleansUp ==
    /\ []<>(clientsMutex = {}) =>
          \A c \in Conns :
              (hpc[c] = "dlock") ~> (c \notin clients /\ conn[c] = "closed")
    /\ [](\A c \in Conns :
            Unregistered(c) =>
                /\ c \notin clients
                /\ ipc = "range" => c \notin todo
                /\ ipc = "write" => cur # c)

\* C20 witness: a handler whose read failed has deleted and closed its
\* connection, which no broadcast had evicted, and a later broadcast has
\* found no client to write to.
C20_Witness ==
    \E c \in Conns :
        /\ hpc[c] = "done" /\ conn[c] = "closed"
        /\ regVals[c] # {}
        /\ c \notin evicted
        /\ ipc = "bunlock" /\ startClients = {} /\ data # << >>

(***************************************************************************)
(* The port handle (lines 66-100).                                         *)
(***************************************************************************)
\* C21: the loop holds at most one open port at any time; it holds exactly
\* one from the successful open to port.Close(), and none while it is about
\* to call serial.Open, so that the port of the stream that ended is closed
\* before the next attempt to open.
C21_PortClosedBeforeReopen ==
    /\ openPorts \in {0, 1}
    /\ ipc = "open" => openPorts = 0
    /\ ipc \in {"scan", "close"} => openPorts = 1

\* The stream ended, the port was closed, and the loop is about to open again.
C21_Witness == ipc = "open" /\ sessions >= 1 /\ openPorts = 0

(***************************************************************************)
(* parseQuaternion (lines 104-131) on the lines of ParseSpec.  sent holds  *)
(* the fields and the padding the line was made of.                        *)
(***************************************************************************)
\* parseQuaternion has returned.
Parsed == ipc # "parse"

\* C22: a line made of N fields, N other than 4, is rejected with the error
\* "expected 4 values, got N", whatever the fields are and whatever
\* whitespace surrounds the line: the empty line counts one field.  The error
\* quotes no field and the record returned is the zero record.
C22_WrongFieldCountRejected ==
    (Parsed /\ Len(sent.fields) # 4) =>
        /\ ipc = "rejected"
        /\ err = [msg |-> "expected 4 values", count |-> Len(sent.fields), text |-> << >>]
        /\ quat = ZeroQuat

\* A padded line of five numbers was rejected in this way.
C22_Witness ==
    /\ ipc = "rejected"
    /\ Len(sent.fields) = 5
    /\ \A p \in 1..5 : sent.fields[p] = <<"1", ".", "0">>
    /\ sent.pad.lead # << >>
    /\ err.count = 5

\* The field texts of ParseSpec that are decimal numbers, written plainly
\* or with an exponent.
Numbers == { <<"0">>, <<"1", ".", "0">>, <<"-", "0", ".", "2", "5">>, <<"5", "e", "-", "1">> }

\* The p-th field of the line sent, once the whitespace around the whole
\* line is gone: only the outer side of the first and of the last field
\* can lose any.
FieldAt(p) ==
    LET f == sent.fields[p]
        g == IF p = 1 THEN TrimLeft(f) ELSE f
    IN  IF p = Len(sent.fields) THEN TrimRight(g) ELSE g

RoleOf(p) == CASE p = 1 -> "i" [] p = 2 -> "j" [] p = 3 -> "k" [] p = 4 -> "real"

NonNumeric(p) == FieldAt(p) \notin Numbers

\* C23: a four-field line with a field that is not a number is rejected,
\* and the error names the role of the lowest-position such field and quotes
\* its text.
C23_NonNumericFieldRejected ==
    (Parsed /\ Len(sent.fields) = 4) =>
        \A p \in 1..4 :
            (NonNumeric(p) /\ \A q \in 1..(p - 1) : ~NonNumeric(q)) =>
                /\ ipc = "rejected"
                /\ err = [msg |-> RoleOf(p), count |-> 4, text |-> FieldAt(p)]


\* The number a field text denotes, and that number as json.Marshal writes it.
ValueOf(txt) ==
    CASE txt = <<"0">> -> <<"num", FALSE, 0, 0>>
      [] txt = <<"1", ".", "0">> -> <<"num", FALSE, 1, 0>>
      [] txt = <<"-", "0", ".", "2", "5">> -> <<"num", TRUE, 25, 2>>
      [] txt = <<"5", "e", "-", "1">> -> <<"num", FALSE, 5, 1>>

JsonOf(txt) ==
    CASE txt = <<"0">> -> <<"0">>
      [] txt = <<"1", ".", "0">> -> <<"1">>
      [] txt = <<"-", "0", ".", "2", "5">> -> <<"-", "0", ".", "2", "5">>
      [] txt = <<"5", "e", "-", "1">> -> <<"0", ".", "5">>

AllNumeric == Len(sent.fields) = 4 /\ \A p \in 1..4 : ~NonNumeric(p)

\* C24: a line of four numbers a,b,c,d parses to the record with I = a, J = b,
\* K = c, Real = d, each the exact value of its text, and the message
\* marshalled from the record has the four fields "i", "j", "k", "real", in
\* this order, with these values.
C24_ValidLineParsedAndEncoded ==
    (Parsed /\ AllNumeric) =>
        /\ ipc \in {"parsed", "marshalled"}
        /\ err = Nil
        /\ quat = [I |-> ValueOf(FieldAt(1)), J |-> ValueOf(FieldAt(2)),
                   K |-> ValueOf(FieldAt(3)), Real |-> ValueOf(FieldAt(4))]
        /\ ipc = "marshalled" =>
                data = << <<"i", JsonOf(FieldAt(1))>>, <<"j", JsonOf(FieldAt(2))>>,
                          <<"k", JsonOf(FieldAt(3))>>, <<"real", JsonOf(FieldAt(4))>> >>

\* The padded line "0,1.0,-0.25,5e-1" was parsed and marshalled.
C24_Witness ==
    /\ ipc = "marshalled"
    /\ sent.fields = << <<"0">>, <<"1", ".", "0">>, <<"-", "0", ".", "2", "5">>,
                        <<"5", "e", "-", "1">> >>
    /\ sent.pad.lead # << >>
    /\ data[4] = <<"real", <<"0", ".", "5">> >>

(***************************************************************************)
(* The read of currentQuat (lines 168-171).                                *)
(***************************************************************************)
\* Handler c holds a whole copy of currentQuat.
HoldsCopy(c) == hpc[c] \in {"send", "write"}

\* C25: a read of currentQuat changes nothing but the reader's copy, and the
\* copy a completed read returns is the value currentQuat holds; so a read
\* that completes while another handler holds a copy taken since the last
\* store returns that same value.
C25_ReadIdempotent ==
    [][\A c \in Conns :
          /\ snap'[c] # snap[c] => currentQuat' = currentQuat
          /\ (hpc[c] = "runlock" /\ hpc'[c] = "send") =>
                /\ snap'[c] = currentQuat
                /\ \A d \in Conns \ {c} :
                      (HoldsCopy(d) /\ snap[d] = currentQuat) => snap'[c] = snap[d]]_vars

\* Two handlers hold equal copies of a record that was stored.
C25_Witness ==
    /\ \A c \in Conns : HoldsCopy(c) /\ snap[c] = currentQuat
    /\ currentQuat # ZeroQuat

(***************************************************************************)
(* A write that is slow to return (lines 144-146).                         *)
(***************************************************************************)
\* A WriteMessage of the broadcast has begun and has not returned.
DeliveryPending == ~crashed /\ ipc = "write"

\* C26: while a delivery of the broadcast to one subscriber is pending, the
\* loop is able to read the next line, a handler waiting to register is able
\* to register, and a handler waiting to unregister is able to unregister.
C26_SlowSubscriberDoesNotStall ==
    DeliveryPending =>
        /\ ENABLED IngestScanEnd
        /\ \A c \in Conns :
              /\ hpc[c] = "lock" => ENABLED HandlerRegister(c)
              /\ hpc[c] = "dlock" => ENABLED HandlerUnregister(c)


(***************************************************************************)
(* The snapshot and the stream (lines 162-174, 85-91, 144-146).            *)
(***************************************************************************)
\* The record the running broadcast was called with.
UnderBroadcast == published[Len(published)]

\* Handler c read its snapshot before the record under broadcast was stored:
\* the copy it holds, or the snapshot its peer received, is a whole record
\* other than that one, while currentQuat has held that one since its store.
ReadBeforeStore(c) ==
    \/ HoldsCopy(c) /\ snap[c] \in WholeRecords \ {UnderBroadcast}
    \/ \E n \in 1..Len(received[c]) :
          /\ received[c][n].src = "snapshot"
          /\ \E v \in WholeRecords \ {UnderBroadcast} : Encodes(received[c][n].msg, v)

\* C27: when a broadcast returns, every client that was registered when it
\* began and had read its snapshot before the record was stored has been
\* written to by the broadcast; and every client still registered whose
\* snapshot write is over has received the record, from the broadcast or as
\* its snapshot.
C27_NoGapAfterSnapshot ==
    ipc = "bunlock" =>
        /\ \A c \in startClients : ReadBeforeStore(c) => c \in attempted
        /\ \A c \in clients :
              hpc[c] = "readloop" =>
                  \/ GotPublish(c, Len(published), Marshal(UnderBroadcast).data)
                  \/ \E n \in 1..Len(received[c]) :
                        /\ received[c][n].src = "snapshot"
                        /\ Encodes(received[c][n].msg, UnderBroadcast)

\* C28: a subscriber receives no record older than one it has received: a
\* snapshot that arrives after a message of the broadcast of the n-th record
\* carries the n-th record or a later one.  (That the last message received
\* is the value of currentQuat once all is quiet would follow from it.)
C28_NeverOlderThanReceived ==
    \A c \in Conns : \A p, q \in 1..Len(received[c]) :
        (q < p /\ received[c][q].src = "publish" /\ received[c][p].src = "snapshot") =>
            \E m \in received[c][q].seq..Len(parsed) :
                Encodes(received[c][p].msg, parsed[m])

(***************************************************************************)
(* Writes on one connection (lines 145, 174).                              *)
(***************************************************************************)
\* C29: at most one unit is inside WriteMessage on a connection at any time:
\* the handler's snapshot write and a write of the broadcast to the same
\* connection do not overlap.
C29_OneWriterPerConnection ==
    \A c \in Conns : Cardinality(writers[c]) <= 1 /\ ~raced[c]

(***************************************************************************)
(* A record that cannot be marshalled (lines 138-142).                     *)
(***************************************************************************)
\* The running broadcast was called with a record json.Marshal fails on.
Unserialisable ==
    ipc \in {"range", "write", "bunlock"} /\ ~Marshal(UnderBroadcast).ok

\* C30: a broadcast whose record cannot be marshalled returns at once: it
\* writes to no client, delivers nothing and leaves clients as it was, while
\* currentQuat holds the record; and from its return the loop goes back to
\* scanner.Scan on the same open port, with clients still unchanged.
C30_MarshalFailureSkipsDelivery ==
    /\ [](Unserialisable =>
            /\ ipc = "bunlock"
            /\ attempted = {} /\ failed = {}
            /\ clients = startClients
            /\ \A c \in Conns : PublishesOf(c, Len(published)) = {}
            /\ currentQuat = UnderBroadcast)
    /\ [][(Unserialisable /\ ipc' # ipc) =>
            (ipc' = "scan" /\ openPorts' = 1 /\ clients' = clients)]_vars

\* The broadcast of a record with a NaN field is returning, a client
\* registered, and currentQuat holds the record.
C30_Witness ==
    /\ ipc = "bunlock"
    /\ ~Marshal(UnderBroadcast).ok
    /\ clients # {}
    /\ currentQuat = UnderBroadcast

(***************************************************************************)
(* Whitespace (lines 105-125).                                             *)
(***************************************************************************)
\* The field text with a space in front of a number.
SpacedZero == <<" ", "0">>

\* The line sent has four fields, all numbers but for SpacedZero at the
\* positions in ps.
SpacedAt(ps) ==
    /\ Len(sent.fields) = 4
    /\ \A p \in 1..4 :
          IF p \in ps THEN sent.fields[p] = SpacedZero ELSE sent.fields[p] \in Numbers

\* C31: whitespace is removed around the whole line only.  A four-field line
\* of numbers in which a field after the first comma begins with a space
\* is rejected, the error naming the role of that field and quoting it with
\* its space; a line of four numbers with whitespace before the first field
\* or after the last one is accepted, the space counting for nothing.
C31_TrimOnlyWholeLine ==
    Parsed =>
        /\ \A p \in 2..4 :
              SpacedAt({p}) =>
                  /\ ipc = "rejected"
                  /\ err = [msg |-> RoleOf(p), count |-> 4, text |-> SpacedZero]
        /\ (SpacedAt({}) \/ SpacedAt({1})) =>
              /\ ipc \in {"parsed", "marshalled"}
              /\ err = Nil
              /\ quat.I = (IF SpacedAt({1}) THEN ValueOf(<<"0">>)
                                             ELSE ValueOf(sent.fields[1]))
              /\ quat.Real = ValueOf(sent.fields[4])

\* The line "0, 0,0,1.0" was rejected for its field j.
C31_Witness ==
    /\ ipc = "rejected"
    /\ sent.fields = << <<"0">>, SpacedZero, <<"0">>, <<"1", ".", "0">> >>
    /\ sent.pad.lead = << >>
    /\ err.msg = "j"
=============================================================================
